---- MODULE Spec2Model ----
(***************************************************************************)
(* vinxi/intercept: the response interception sink (WriterInterceptor),    *)
(* the Response middleware that installs it and the disconnect task that   *)
(* closes it.  One request is served: the wrapped handler drives the sink  *)
(* (thread "handler") while the disconnect task (thread "notify") waits    *)
(* for the peer-closed notification and calls Close.  The steps are cut at *)
(* the accesses to the fields the two threads share (closed, buf, mutex).  *)
(***************************************************************************)
EXTENDS Integers, Sequences, FiniteSets, TLC

(* ------------------------------ bounds -------------------------------- *)
\* calls the wrapped handler makes on its sink before it returns
MaxOps == 3
\* longest chunk handed to one Write
MaxChunkLen == 2
\* largest Content-Length the handler declares
MaxCL == 2
\* filters registered on one RequestInterceptor
MaxFilters == 2
\* requests one RequestInterceptor handles
MaxRequests == 2
\* calls made on one message modifier
MaxModOps == 2

(* ------------------------ program constants --------------------------- *)
StatusOK == 200
StatusNotFound == 404
\* the zero status, for which writeHeader skips WriteHeader on the real sink
StatusNone == 0
\* the body a modifier callback puts in place of the handler's
ReplBody == <<0>>

(* ------------------------------ inputs -------------------------------- *)
Methods == {"GET", "OPTIONS", "HEAD"}
\* The handler writes a byte stream whose i-th byte is i, k bytes per Write:
\* the chunk that follows the n bytes already written
Chunk(n, k) == [i \in 1..k |-> n + i]
ChunkLens == 0..MaxChunkLen
Statuses == {StatusNone, StatusOK, StatusNotFound}
Threads == {"handler", "notify"}

Digits == <<"0", "1", "2", "3", "4", "5", "6", "7", "8", "9">>

\* strconv.Itoa for the non-negative values the handler declares
RECURSIVE Itoa(_)
Itoa(n) == IF n < 10 THEN <<Digits[n + 1]>>
           ELSE Itoa(n \div 10) \o <<Digits[(n % 10) + 1]>>

DigitVal(c) == CHOOSE d \in 0..9 : Digits[d + 1] = c
IsDigit(c) == \E d \in 0..9 : Digits[d + 1] = c

RECURSIVE AtoiDigits(_, _)
AtoiDigits(s, acc) == IF s = <<>> THEN acc
                      ELSE AtoiDigits(Tail(s), acc * 10 + DigitVal(Head(s)))

\* strconv.Atoi with the error dropped (cl, _ := strconv.Atoi(length)):
\* the value of a digit string, 0 for anything else
Atoi(s) == IF s # <<>> /\ \A i \in 1..Len(s) : IsDigit(s[i])
           THEN AtoiDigits(s, 0) ELSE 0

\* the Content-Length values a handler declares: none, "0", a number, junk
LengthValues == {<<>>, <<"x">>} \cup {Itoa(n) : n \in 0..MaxCL}

(* ---------------------------- http.Header ----------------------------- *)
EmptyHeader == [k \in {} |-> <<>>]

\* http.Header.Get: the first value of the field, "" when it is absent
HeaderGet(h, k) == IF k \in DOMAIN h /\ Len(h[k]) > 0 THEN h[k][1] ELSE <<>>

\* http.Header.Set: the field holds exactly the one value
HeaderSet(h, k, v) == [x \in (DOMAIN h) \cup {k} |-> IF x = k THEN <<v>> ELSE h[x]]

\* for k, v := range src { target[k] = v }
HeaderCopy(target, src) ==
    [x \in (DOMAIN target) \cup (DOMAIN src) |->
        IF x \in DOMAIN src THEN src[x] ELSE target[x]]

\* http.StatusText
StatusText(code) == CASE code = StatusOK -> "OK"
                      [] code = StatusNotFound -> "Not Found"
                      [] OTHER -> ""

\* strconv.Itoa(status) + " " + http.StatusText(status)
StatusLine(code) == <<Itoa(code), StatusText(code)>>

\* ioutil.NopCloser(bytes.NewReader(b)): the unread bytes of the stream
NewBody(b) == [data |-> b, fails |-> FALSE]

\* an event on the real sink
Ev(kind, code, data) == [kind |-> kind, code |-> code, data |-> data]

(* ------------------------------- state -------------------------------- *)
VARIABLES
    method,         \* r.Method
    hasNotifier,    \* the real sink implements http.CloseNotifier
    installed,      \* the middleware put a WriterInterceptor before the sink
    notified,       \* the peer-closed notification has fired
    closed,         \* WriterInterceptor.closed
    headerWritten,  \* WriterInterceptor.headerWritten
    buf,            \* WriterInterceptor.buf
    mutex,          \* WriterInterceptor.mutex is locked
    response,       \* WriterInterceptor.response
    wHeader,        \* the real sink's header collection
    out,            \* what the real sink was given, in order
    pc,             \* each thread's position
    hcall,          \* the sink method the handler is inside
    rbuf,           \* writeBody's local buf, err
    ret,            \* what the handler's last Write or DoWrite returned
    ri,             \* the RequestInterceptor and its HandleHTTP call
    mm,             \* a message, the modifier on it and its last call
    nOps,           \* calls the handler has made
    hist            \* history: counters and records the properties read

vars == <<method, hasNotifier, installed, notified, closed, headerWritten, buf,
          mutex, response, wHeader, out, pc, hcall, rbuf, ret, ri, mm, nOps,
          hist>>

sinkVars == <<closed, headerWritten, buf, mutex, response>>
realVars == <<wHeader, out>>
envVars == <<method, hasNotifier, ri, mm>>

NoRet == [n |-> 0, err |-> FALSE]
NoRead == [data |-> <<>>, err |-> FALSE]

(* ---------------------- requests and their filters -------------------- *)
\* a request without a body (Body == nil), and with one
NilBody == [nil |-> TRUE, data |-> <<>>, fails |-> FALSE]
ReqBody(b) == [nil |-> FALSE, data |-> b, fails |-> FALSE]

\* the body the request modifier of the tests sets ("Hello")
HelloBody == <<7, 8>>

NewRequest(meth, header, body) ==
    [Method |-> meth, Header |-> header, ContentLength |-> Len(body.data),
     Body |-> body]

Requests ==
    {NewRequest(meth, h, b) :
        meth \in {"GET", "POST"},
        h \in {EmptyHeader, HeaderSet(EmptyHeader, "foo", <<"a">>)},
        b \in {NilBody, ReqBody(<<1>>)}}

NoRequest == NewRequest("", EmptyHeader, NilBody)

\* the real sinks a HandleHTTP call can be given
Writers == {"w1", "w2"}

\* filters: func(*http.Request) bool
FilterKinds == {"any", "never", "post", "foo"}

FilterEval(f, r) ==
    CASE f = "any" -> TRUE
      [] f = "never" -> FALSE
      [] f = "post" -> r.Method = "POST"
      [] OTHER -> "foo" \in DOMAIN r.Header

\* the argument lists of one Filter call
FilterArgs == {<<f>> : f \in FilterKinds} \cup
              {<<f, g>> : f \in FilterKinds, g \in FilterKinds}

\* Request(h): the interceptor as constructed, no call in progress
NewInterceptor ==
    [Filters |-> <<>>,      \* RequestInterceptor.Filters
     regLog |-> <<>>,       \* the argument lists of the Filter calls so far
     phase |-> "ready",     \* position of the HandleHTTP call
     w |-> "none",          \* HandleHTTP's w
     r |-> NoRequest,       \* HandleHTTP's *r
     given |-> NoRequest,   \* the request as it was when the call started
     i |-> 0,               \* filter's loop index
     evald |-> <<>>,        \* the filters evaluated for this request
     modCalls |-> 0,        \* invocations of s.Modifier for this request
     nextCalls |-> 0,       \* invocations of h.ServeHTTP for this request
     nextW |-> "none",      \* the sink h.ServeHTTP was given
     nextR |-> NoRequest,   \* the request as h.ServeHTTP saw it
     nextAfterMod |-> 0,    \* modCalls when h.ServeHTTP was called
     lastMod |-> "none",    \* what the modifier did to this request
     served |-> 0]          \* HandleHTTP calls started

\* NewWriterInterceptor's synthetic response
\* NewWriterInterceptor leaves the status of the pending response unset
NewResponse_noStatus ==
    [StatusCode |-> StatusNone, Status |-> StatusLine(StatusNone),
     Header |-> EmptyHeader, ContentLength |-> 0, Body |-> NewBody(<<>>)]

NewResponse ==
    [StatusCode |-> StatusOK, Status |-> StatusLine(StatusOK),
     Header |-> EmptyHeader, ContentLength |-> 0, Body |-> NewBody(<<>>)]

(* ------------- message bodies, values to encode, readers -------------- *)
\* Bodies are sequences of bytes by lexical class: 1 is white space, 2
\* opens a value (JSON) or an element (XML), 3 closes it, 4 is any other
\* character.
Bodies ==
    {<<>>,          \* empty
     <<1>>,         \* white space only
     <<4>>,         \* text and nothing else
     <<3>>,         \* a close without its open
     <<2, 3>>,      \* one value
     <<2, 4, 3>>,   \* one value with content
     <<2, 3, 4>>,   \* one value and text after it
     <<2, 4>>}      \* a value that is not closed

\* request bodies: absent, readable, or failing when read (errorReader)
FailingBody == [nil |-> FALSE, data |-> <<>>, fails |-> TRUE]

\* the values handed to JSON and XML
Values ==
    {[kind |-> "string", data |-> <<4, 4>>],
     [kind |-> "bytes", data |-> <<2, 3>>],
     [kind |-> "struct", data |-> <<4>>],
     [kind |-> "unsupported", data |-> <<>>]}

\* the readers handed to Reader
InMemoryReaders == {"bytes.Buffer", "bytes.Reader", "strings.Reader"}
NilReader == [kind |-> "nil", data |-> <<>>]
Readers ==
    {[kind |-> k, data |-> <<4, 4>>] :
        k \in InMemoryReaders \cup {"stream", "readCloser"}}
    \cup {NilReader}

\* the bytes handed to Bytes and String
Payloads == {<<4>>, <<2, 3>>}

\* the struct a Decode call fills
NoTarget == [set |-> FALSE, val |-> <<>>]

NoArg == [kind |-> "none", data |-> <<>>]

\* no modifier, no call
NoSession ==
    [variant |-> "none",    \* "request": RequestModifier, "response": ResponseModifier
     req |-> NoRequest,     \* the modifier's Request
     res |-> NewResponse,   \* the modifier's Response
     target |-> NoTarget,   \* the caller's decode target
     ops |-> 0,             \* calls made on the modifier
     last |-> [op |-> "none", arg |-> NoArg, err |-> "none", val |-> <<>>,
               req |-> NoRequest, res |-> NewResponse, target |-> NoTarget],
                            \* the last call: its name, argument, returned
                            \* error and value, and the message and target
                            \* as they were before it
     prev |-> [op |-> "none", err |-> "none", val |-> <<>>]]
                            \* the call before the last: name, error, value

InitHist ==
    [modCalls |-> 0,        \* invocations of the modifier callback
     modSeen |-> <<>>,      \* the body the last invocation was given
     lastMod |-> "none",    \* what the last invocation did
     closesAtMod |-> 0,     \* the value of closeTrans at the last invocation
     lateWrite |-> [late |-> FALSE, ops |-> 0, outLen |-> 0, wh |-> <<>>],
                            \* the last Write started on a closed sink or
                            \* with the declared length already reached:
                            \* which call, and the real sink's log and header
                            \* at its start
     writes |-> 0,          \* Write calls made on the sink
     written |-> 0,         \* bytes handed to those calls
     firstNoLen |-> FALSE,  \* the first Write found no declared length
     firstChunk |-> <<>>,   \* the chunk of the first Write
     closeCalls |-> 0,      \* Close calls started
     closeDone |-> 0,       \* Close calls that returned
     closeTrans |-> 0,      \* times closed went from false to true
     bodyCloses |-> 0,      \* calls of response.Body.Close()
     directClose |-> 0,     \* Close calls made by the handler itself
     directFlush |-> 0,     \* DoWrite calls made by the handler itself
     closedBy |-> "none",   \* the thread that set closed
     atClose |-> [total |-> 0, declared |-> 0, hcall |-> "none"],
                            \* running total, declared length and handler
                            \* call when closed was set
     lateOut |-> 0,         \* events given to the real sink while closed
     relSinceFire |-> FALSE,
                            \* since the peer-closed notification fired the
                            \* sink has been closed with its buffer released
     handlerRuns |-> 0,     \* times the middleware called h.ServeHTTP
     serveLog |-> <<>>,     \* what the middleware did, in order: "new" built
                            \* the sink, "go" started the disconnect task,
                            \* "handler" called h.ServeHTTP
     handlerHeader |-> EmptyHeader,
                            \* the fields the handler has set through
                            \* Header(), with the values it gave them
     modHeader |-> EmptyHeader,
                            \* the header of the response the last
                            \* invocation of the modifier was given
     atFlush |-> [done |-> FALSE, pending |-> EmptyHeader,
                  whBefore |-> EmptyHeader, handler |-> EmptyHeader,
                  modCalls |-> 0, modHeader |-> EmptyHeader,
                  lastMod |-> "none"],
                            \* when writeHeader copied the header: the
                            \* pending header, the real sink's header before
                            \* the copy, the handler's fields, and the
                            \* modifier's invocations so far
     lastW |-> [ops |-> 0, len |-> 0, path |-> "none", closed |-> FALSE],
                            \* the last Write on the sink: which call, the
                            \* length of its chunk, the branch it took
                            \* ("nolength", "buffer", "complete") and closed
                            \* at its start
     lastWH |-> [ops |-> 0, code |-> 0, closed |-> FALSE, outLen |-> 0,
                 wh |-> <<>>, before |-> <<>>],
                            \* the last WriteHeader on the sink: which call,
                            \* its argument, and closed, the real sink's log
                            \* and header and the pending response at its
                            \* start
     bodyPhase |-> [ran |-> FALSE, ops |-> 0, failed |-> FALSE]]
                            \* writeBody went past its closed test, during
                            \* which handler call, and its read or its write
                            \* of the real sink failed

InitSink ==
    /\ installed = FALSE
    /\ notified = FALSE
    /\ closed = FALSE
    /\ headerWritten = FALSE
    /\ buf = <<>>
    /\ mutex = FALSE
    /\ response = NewResponse
    /\ wHeader = HeaderSet(EmptyHeader, "Via", <<"r">>)
    /\ out = <<>>
    /\ pc = [t \in Threads |-> "start"]
    /\ hcall = "none"
    /\ rbuf = NoRead
    /\ ret = NoRet
    /\ ri = NewInterceptor
    /\ nOps = 0
    /\ hist = InitHist

Init ==
    /\ method \in Methods
    /\ hasNotifier \in BOOLEAN
    /\ InitSink
    /\ mm = NoSession

(* ------------------------- ResponseModifier --------------------------- *)
\* ResponseModifier.Status
\* Status sets the status text and leaves the code
RM_Status_textOnly(r, status) == [r EXCEPT !.Status = StatusLine(status)]

RM_Status(r, status) ==
    [r EXCEPT !.StatusCode = status, !.Status = StatusLine(status)]

\* ResponseModifier.Bytes
RM_Bytes(r, body) == [r EXCEPT !.Body = NewBody(body)]

\* ResponseModifier.String
RM_String(r, body) == [r EXCEPT !.Body = NewBody(body)]

\* ResponseModifier.ReadBytes: drain the body, re-arm it over the same bytes
RM_ReadBytes(r) ==
    IF r.Body.fails
    THEN [res |-> r, buf |-> <<>>, err |-> TRUE]
    ELSE [res |-> RM_Bytes(r, r.Body.data), buf |-> r.Body.data, err |-> FALSE]

\* what a modifier callback does with the response it is given: it may set
\* the status, may read the body or replace it, may set a header field
Modifiers == {"nothing", "read", "rewrite", "tag", "break"}

\* a body whose Read returns an error
BrokenBody == [data |-> <<>>, fails |-> TRUE]

ApplyModifier(m, r) ==
    CASE m = "read" -> RM_ReadBytes(r).res
      [] m = "rewrite" -> RM_String(RM_Status(r, StatusNotFound), ReplBody)
      [] m = "tag" -> [r EXCEPT !.Header = HeaderSet(r.Header, "X-Tag", <<"m">>)]
      [] m = "break" -> [r EXCEPT !.Body = BrokenBody]
      [] OTHER -> r

(* --------------------------- the middleware --------------------------- *)
\* Response: r.Method == "OPTIONS" || r.Method == "HEAD"
Bypass_onlyOptions(m) == m = "OPTIONS"

Bypass(m) == m = "OPTIONS" \/ m = "HEAD"

\* Response's handler func: bypass, or install the sink, start the
\* disconnect task when the real sink can notify, then run the handler
\* the middleware starts the disconnect task whatever the real sink is
StartsTask_always(ok) == TRUE

\* Response: notifier, ok := w.(http.CloseNotifier); if !ok { return }
StartsTask(ok) == ok

\* the deferred h.ServeHTTP(writer, r) runs when the function returns, after
\* the go statement when there is one
ServeSteps(ok) ==
    <<"new">> \o (IF StartsTask(ok) THEN <<"go">> ELSE <<>>) \o <<"handler">>

Serve ==
    /\ pc["handler"] = "start"
    /\ IF Bypass(method)
       THEN /\ installed' = FALSE
            /\ pc' = [pc EXCEPT !["handler"] = "idle", !["notify"] = "off"]
       ELSE /\ installed' = TRUE
            /\ pc' = [pc EXCEPT !["handler"] = "idle",
                                !["notify"] = IF StartsTask(hasNotifier)
                                              THEN "wait" ELSE "off"]
    /\ closed' = FALSE
    /\ headerWritten' = FALSE
    /\ buf' = <<>>
    /\ mutex' = FALSE
    /\ response' = NewResponse
    /\ hist' = [hist EXCEPT
           !.handlerRuns = @ + 1,
           !.serveLog = IF Bypass(method) THEN <<"handler">>
                        ELSE ServeSteps(hasNotifier)]
    /\ UNCHANGED <<envVars, realVars, notified, hcall, rbuf, ret, nOps>>

(* ----------------- the handler on the real sink (bypass) -------------- *)
DirectHeaderSet(v) ==
    /\ pc["handler"] = "idle" /\ ~installed /\ nOps < MaxOps
    /\ wHeader' = HeaderSet(wHeader, "X-Tag", v)
    /\ nOps' = nOps + 1
    /\ UNCHANGED <<envVars, sinkVars, installed, notified, out, pc, hcall,
                   rbuf, ret, hist>>

DirectWriteHeader(status) ==
    /\ pc["handler"] = "idle" /\ ~installed /\ nOps < MaxOps
    /\ out' = Append(out, Ev("status", status, <<>>))
    /\ nOps' = nOps + 1
    /\ UNCHANGED <<envVars, sinkVars, installed, notified, wHeader, pc, hcall,
                   rbuf, ret, hist>>

DirectWrite(k) ==
    /\ pc["handler"] = "idle" /\ ~installed /\ nOps < MaxOps
    /\ out' = Append(out, Ev("body", 0, Chunk(hist.written, k)))
    /\ ret' = [n |-> k, err |-> FALSE]
    /\ hist' = [hist EXCEPT !.writes = @ + 1, !.written = @ + k]
    /\ nOps' = nOps + 1
    /\ UNCHANGED <<envVars, sinkVars, installed, notified, wHeader, pc, hcall, rbuf>>

(* ------------------------- WriterInterceptor -------------------------- *)
\* Header(): the handler edits the live pending header collection.  The
\* handler declares the length before it writes the body.
SinkHeaderSet(k, v) ==
    /\ pc["handler"] = "idle" /\ installed /\ nOps < MaxOps
    /\ k = "Content-Length" => hist.writes = 0
    /\ response' = [response EXCEPT !.Header = HeaderSet(response.Header, k, v)]
    /\ nOps' = nOps + 1
    /\ hist' = [hist EXCEPT !.handlerHeader = HeaderSet(@, k, v)]
    /\ UNCHANGED <<envVars, installed, notified, closed, headerWritten, buf,
                   mutex, realVars, pc, hcall, rbuf, ret>>

\* WriteHeader
WriteHeader(status) ==
    /\ pc["handler"] = "idle" /\ installed /\ nOps < MaxOps
    /\ response' = [response EXCEPT !.StatusCode = status,
                                    !.Status = StatusLine(status)]
    /\ nOps' = nOps + 1
    /\ hist' = [hist EXCEPT !.lastWH =
                   [ops |-> nOps + 1, code |-> status, closed |-> closed,
                    outLen |-> Len(out), wh |-> wHeader, before |-> response]]
    /\ UNCHANGED <<envVars, installed, notified, closed, headerWritten, buf,
                   mutex, realVars, pc, hcall, rbuf, ret>>

\* Write: length == "" || length == "0"
NoDeclaredLength(length) == length = <<>> \/ length = <<"0">>

\* Write: "If not EOF": w.response.ContentLength != int64(cl)
\* Write keeps the last chunk only
Accumulate_overwrite(pending, b) == b

\* Write: w.buf = append(w.buf, b...)
Accumulate(pending, b) == pending \o b

NotEOF(total, cl) == total # cl

\* Write up to the modifier call: the undeclared-length path hands the chunk
\* to DoWrite; the declared-length path accumulates and returns until the
\* running total equals the declared length
Write(k) ==
    /\ pc["handler"] = "idle" /\ installed /\ nOps < MaxOps
    /\ nOps' = nOps + 1
    /\ LET b == Chunk(hist.written, k)
           length == HeaderGet(response.Header, "Content-Length")
           total == response.ContentLength + Len(b)
       IN  /\ hist' = [hist EXCEPT
                  !.writes = @ + 1,
                  !.written = @ + Len(b),
                  !.firstNoLen = IF hist.writes = 0 THEN NoDeclaredLength(length) ELSE @,
                  !.firstChunk = IF hist.writes = 0 THEN b ELSE @,
                  !.lastW = [ops |-> nOps + 1, len |-> Len(b),
                             path |-> IF NoDeclaredLength(length)
                                      THEN "nolength"
                                      ELSE IF NotEOF(total, Atoi(length))
                                           THEN "buffer" ELSE "complete",
                             closed |-> closed],
                  !.lateWrite =
                      IF closed \/ (Atoi(length) > 0
                                    /\ response.ContentLength >= Atoi(length))
                      THEN [late |-> TRUE, ops |-> nOps + 1,
                            outLen |-> Len(out), wh |-> wHeader]
                      ELSE InitHist.lateWrite]
           /\ IF NoDeclaredLength(length)
              THEN /\ buf' = b
                   /\ pc' = [pc EXCEPT !["handler"] = "wh_check"]
                   /\ hcall' = "Write"
                   /\ UNCHANGED <<response, ret>>
              ELSE /\ response' = [response EXCEPT !.ContentLength = total]
                   /\ buf' = Accumulate(buf, b)
                   /\ IF NotEOF(total, Atoi(length))
                      THEN /\ ret' = [n |-> Len(b), err |-> FALSE]
                           /\ UNCHANGED <<pc, hcall>>
                      ELSE /\ pc' = [pc EXCEPT !["handler"] = "w_mod"]
                           /\ hcall' = "Write"
                           /\ UNCHANGED ret
    /\ UNCHANGED <<envVars, installed, notified, closed, headerWritten, mutex,
                   realVars, rbuf>>

\* Write, body complete: the accumulated buffer becomes the body and the
\* modifier callback runs on the response
WriteModify(m) ==
    /\ pc["handler"] = "w_mod"
    /\ response' = ApplyModifier(m, [response EXCEPT !.Body = NewBody(buf)])
    /\ hist' = [hist EXCEPT !.modCalls = @ + 1, !.modSeen = buf,
                            !.modHeader = response.Header,
                            !.lastMod = m, !.closesAtMod = hist.closeTrans]
    /\ pc' = [pc EXCEPT !["handler"] = "wh_check"]
    /\ UNCHANGED <<envVars, installed, notified, closed, headerWritten, buf,
                   mutex, realVars, hcall, rbuf, ret, nOps>>

\* DoWrite called by the handler itself
DoWrite ==
    /\ pc["handler"] = "idle" /\ installed /\ nOps < MaxOps
    /\ nOps' = nOps + 1
    /\ hcall' = "DoWrite"
    /\ hist' = [hist EXCEPT !.directFlush = @ + 1]
    /\ pc' = [pc EXCEPT !["handler"] = "wh_check"]
    /\ UNCHANGED <<envVars, installed, notified, sinkVars, realVars, rbuf, ret>>

\* writeHeader with the headerWritten test inverted
writeHeaderSkip_inverted(hw, cl) == ~hw \/ cl

\* writeHeader without the closed test
writeHeaderSkip_noClosed(hw, cl) == hw

\* writeHeader: w.headerWritten || w.closed
writeHeaderSkip(hw, cl) == hw \/ cl

\* writeHeader, the test
WriteHeaderCheck ==
    /\ pc["handler"] = "wh_check"
    /\ pc' = [pc EXCEPT !["handler"] =
                 IF writeHeaderSkip(headerWritten, closed) THEN "wb_check" ELSE "wh_emit"]
    /\ UNCHANGED <<envVars, installed, notified, sinkVars, realVars, hcall,
                   rbuf, ret, nOps, hist>>

\* the events writeHeader gives the real sink
HeaderEvents(r) ==
    (IF r.StatusCode # StatusNone THEN <<Ev("status", r.StatusCode, <<>>)>> ELSE <<>>)
    \o <<Ev("header", 0, <<>>)>>

\* writeHeader, the emission: status, header copy, headerWritten
WriteHeaderEmit ==
    /\ pc["handler"] = "wh_emit"
    /\ out' = out \o HeaderEvents(response)
    /\ wHeader' = HeaderCopy(wHeader, response.Header)
    /\ headerWritten' = TRUE
    /\ hist' = [hist EXCEPT
           !.lateOut = IF closed THEN @ + Len(HeaderEvents(response)) ELSE @,
           !.atFlush = [done |-> TRUE, pending |-> response.Header,
                        whBefore |-> wHeader, handler |-> hist.handlerHeader,
                        modCalls |-> hist.modCalls,
                        modHeader |-> hist.modHeader,
                        lastMod |-> hist.lastMod]]
    /\ pc' = [pc EXCEPT !["handler"] = "wb_check"]
    /\ UNCHANGED <<envVars, installed, notified, closed, buf, mutex, response,
                   hcall, rbuf, ret, nOps>>

\* writeBody: w.closed
\* writeBody without its closed test
writeBodySkip_never(cl) == FALSE

writeBodySkip(cl) == cl

\* writeBody drops the error of ioutil.ReadAll
ReadResult_swallowed(err) == [n |-> 0, err |-> FALSE]

\* writeBody: if err != nil { return 0, err }
ReadResult(err) == [n |-> 0, err |-> err]

\* what w.writer.Write(buf) returns: the real sink took all of it or failed
WriteResult(b, ok) == [n |-> IF ok THEN Len(b) ELSE 0, err |-> ~ok]

\* writeBody, the test: return 0, nil when closed
WriteBodyCheck ==
    /\ pc["handler"] = "wb_check"
    /\ IF writeBodySkip(closed)
       THEN /\ pc' = [pc EXCEPT !["handler"] = "idle"]
            /\ hcall' = "none"
            /\ ret' = [n |-> 0, err |-> FALSE]
            /\ UNCHANGED hist
       ELSE /\ pc' = [pc EXCEPT !["handler"] = "wb_read"]
            /\ hist' = [hist EXCEPT !.bodyPhase =
                            [ran |-> TRUE, ops |-> nOps, failed |-> FALSE]]
            /\ UNCHANGED <<hcall, ret>>
    /\ UNCHANGED <<envVars, installed, notified, sinkVars, realVars, rbuf,
                   nOps>>

\* writeBody: buf, err := ioutil.ReadAll(w.response.Body); defer w.Close()
WriteBodyRead ==
    /\ pc["handler"] = "wb_read"
    /\ rbuf' = [data |-> IF response.Body.fails THEN <<>> ELSE response.Body.data,
                err |-> response.Body.fails]
    /\ response' = IF response.Body.fails THEN response
                   ELSE [response EXCEPT !.Body.data = <<>>]
    /\ IF response.Body.fails
       THEN /\ ret' = ReadResult(TRUE)
            /\ pc' = [pc EXCEPT !["handler"] = "c_lock"]
            /\ hist' = [hist EXCEPT !.closeCalls = @ + 1,
                                    !.bodyPhase.failed = TRUE]
       ELSE /\ pc' = [pc EXCEPT !["handler"] = "wb_write"]
            /\ UNCHANGED <<ret, hist>>
    /\ UNCHANGED <<envVars, installed, notified, closed, headerWritten, buf,
                   mutex, realVars, hcall, nOps>>

\* writeBody: return w.writer.Write(buf), then the deferred Close.  out
\* logs the call of the real sink whether or not the real sink reports an
\* error for it.
WriteBodyWrite(ok) ==
    /\ pc["handler"] = "wb_write"
    /\ out' = Append(out, Ev("body", 0, rbuf.data))
    /\ ret' = WriteResult(rbuf.data, ok)
    /\ hist' = [hist EXCEPT !.closeCalls = @ + 1,
                            !.bodyPhase.failed = ~ok,
                            !.lateOut = IF closed THEN @ + 1 ELSE @]
    /\ pc' = [pc EXCEPT !["handler"] = "c_lock"]
    /\ UNCHANGED <<envVars, installed, notified, sinkVars, wHeader, hcall,
                   rbuf, nOps>>

\* Close called by the handler itself
CloseCall ==
    /\ pc["handler"] = "idle" /\ installed /\ nOps < MaxOps
    /\ nOps' = nOps + 1
    /\ hcall' = "Close"
    /\ hist' = [hist EXCEPT !.directClose = @ + 1, !.closeCalls = @ + 1]
    /\ pc' = [pc EXCEPT !["handler"] = "c_lock"]
    /\ UNCHANGED <<envVars, installed, notified, sinkVars, realVars, rbuf, ret>>

\* where a thread continues when its Close call returns
AfterClose(t) == IF t = "handler" THEN "idle" ELSE "done"

\* Close: w.mutex.Lock()
CloseLock(t) ==
    /\ pc[t] = "c_lock"
    /\ ~mutex
    /\ mutex' = TRUE
    /\ pc' = [pc EXCEPT ![t] = "c_crit"]
    /\ UNCHANGED <<envVars, installed, notified, closed, headerWritten, buf,
                   response, realVars, hcall, rbuf, ret, nOps, hist>>

\* Close without the closed test
CloseSkip_never(cl) == FALSE

\* Close: if w.closed
CloseSkip(cl) == cl

\* Close: if w.closed { return }; w.closed = true
CloseMark(t) ==
    /\ pc[t] = "c_crit"
    /\ IF CloseSkip(closed)
       THEN /\ pc' = [pc EXCEPT ![t] = AfterClose(t)]
            /\ hcall' = IF t = "handler" THEN "none" ELSE hcall
            /\ hist' = [hist EXCEPT !.closeDone = @ + 1]
            /\ UNCHANGED closed
       ELSE /\ closed' = TRUE
            /\ pc' = [pc EXCEPT ![t] = "c_release"]
            /\ hist' = [hist EXCEPT
                   !.closeTrans = @ + 1,
                   !.closedBy = t,
                   !.relSinceFire = @ \/ (notified /\ buf = <<>>),
                   !.atClose = [total |-> response.ContentLength,
                                declared |-> Atoi(HeaderGet(response.Header,
                                                            "Content-Length")),
                                hcall |-> hcall]]
            /\ UNCHANGED hcall
    /\ UNCHANGED <<envVars, installed, notified, headerWritten, buf, mutex,
                   response, realVars, rbuf, ret, nOps>>

\* Close: w.buf = nil; w.response.Body.Close()
CloseRelease(t) ==
    /\ pc[t] = "c_release"
    /\ buf' = <<>>
    /\ hist' = [hist EXCEPT !.bodyCloses = @ + 1,
                            !.relSinceFire = @ \/ (notified /\ closed)]
    /\ pc' = [pc EXCEPT ![t] = "c_unlock"]
    /\ UNCHANGED <<envVars, installed, notified, closed, headerWritten, mutex,
                   response, realVars, hcall, rbuf, ret, nOps>>

\* Close: w.mutex.Unlock()
CloseUnlock(t) ==
    /\ pc[t] = "c_unlock"
    /\ mutex' = FALSE
    /\ pc' = [pc EXCEPT ![t] = AfterClose(t)]
    /\ hcall' = IF t = "handler" THEN "none" ELSE hcall
    /\ hist' = [hist EXCEPT !.closeDone = @ + 1]
    /\ UNCHANGED <<envVars, installed, notified, closed, headerWritten, buf,
                   response, realVars, rbuf, ret, nOps>>

\* the handler returns
HandlerReturn ==
    /\ pc["handler"] = "idle"
    /\ pc' = [pc EXCEPT !["handler"] = "done"]
    /\ UNCHANGED <<envVars, installed, notified, sinkVars, realVars, hcall,
                   rbuf, ret, nOps, hist>>

(* ------------------------- the disconnect task ------------------------ *)
\* the peer goes away: the real sink's CloseNotify channel fires
PeerClosed ==
    /\ hasNotifier /\ ~notified
    /\ pc["handler"] # "start"
    /\ notified' = TRUE
    /\ hist' = [hist EXCEPT !.relSinceFire = closed /\ buf = <<>>]
    /\ UNCHANGED <<envVars, installed, sinkVars, realVars, pc, hcall, rbuf,
                   ret, nOps>>

\* go func() { <-notify; writer.Close() }()
NotifyReceive ==
    /\ pc["notify"] = "wait"
    /\ notified
    /\ pc' = [pc EXCEPT !["notify"] = "c_lock"]
    /\ hist' = [hist EXCEPT !.closeCalls = @ + 1]
    /\ UNCHANGED <<envVars, installed, notified, sinkVars, realVars, hcall,
                   rbuf, ret, nOps>>

Next ==
    \/ Serve
    \/ \E v \in {<<"h">>} : DirectHeaderSet(v)
    \/ \E s \in Statuses : DirectWriteHeader(s)
    \/ \E k \in ChunkLens : DirectWrite(k)
    \/ \E v \in LengthValues : SinkHeaderSet("Content-Length", v)
    \/ SinkHeaderSet("X-Tag", <<"h">>)
    \/ \E s \in Statuses : WriteHeader(s)
    \/ \E k \in ChunkLens : Write(k)
    \/ \E m \in Modifiers : WriteModify(m)
    \/ DoWrite
    \/ WriteHeaderCheck
    \/ WriteHeaderEmit
    \/ WriteBodyCheck
    \/ WriteBodyRead
    \/ \E ok \in BOOLEAN : WriteBodyWrite(ok)
    \/ CloseCall
    \/ \E t \in Threads : CloseLock(t)
    \/ \E t \in Threads : CloseMark(t)
    \/ \E t \in Threads : CloseRelease(t)
    \/ \E t \in Threads : CloseUnlock(t)
    \/ HandlerReturn
    \/ PeerClosed
    \/ NotifyReceive

Spec == Init /\ [][Next]_vars

\* the steps a running handler call takes without the handler's choosing
HandlerStep ==
    \/ Serve
    \/ \E m \in Modifiers : WriteModify(m)
    \/ WriteHeaderCheck
    \/ WriteHeaderEmit
    \/ WriteBodyCheck
    \/ WriteBodyRead
    \/ \E ok \in BOOLEAN : WriteBodyWrite(ok)
    \/ CloseLock("handler")
    \/ CloseMark("handler")
    \/ CloseRelease("handler")
    \/ CloseUnlock("handler")

\* the steps of the disconnect goroutine once the notification is there
NotifyStep ==
    \/ NotifyReceive
    \/ CloseLock("notify")
    \/ CloseMark("notify")
    \/ CloseRelease("notify")
    \/ CloseUnlock("notify")

\* The Go scheduler runs every runnable goroutine: a call in progress goes
\* on and the disconnect goroutine runs once it can.  Whether the handler
\* makes another call, and whether the peer goes away, is left open.
FairSpec == Spec /\ WF_vars(HandlerStep) /\ WF_vars(NotifyStep)

(* --------------------------- shared notions --------------------------- *)
\* the declared length as Write reads it
(* --------------------- encoding/json, encoding/xml -------------------- *)
\* json.Encoder.Encode writes the value and a newline
JSONEncode(v) == <<2>> \o v.data \o <<3, 1>>

\* xml.Encoder.Encode writes the element
XMLEncode(v) == <<2>> \o v.data \o <<3>>

\* every value is taken as serializable
Serializable_all(v) == TRUE

\* Encode returns an error for a value it has no encoding for
Serializable(v) == v.kind # "unsupported"

\* JSON, XML: a string or []byte is taken verbatim, anything else encoded
Verbatim(v) == v.kind = "string" \/ v.kind = "bytes"

\* the index in s of the close that matches the open at s[1], 0 if none
RECURSIVE MatchClose(_, _, _)
MatchClose(s, i, depth) ==
    IF i > Len(s) THEN 0
    ELSE IF s[i] = 2 THEN MatchClose(s, i + 1, depth + 1)
    ELSE IF s[i] = 3
         THEN IF depth = 1 THEN i ELSE MatchClose(s, i + 1, depth - 1)
         ELSE MatchClose(s, i + 1, depth)

\* the rest of s after its leading bytes of the classes in skip
RECURSIVE SkipLeading(_, _)
SkipLeading(s, skip) ==
    IF s # <<>> /\ Head(s) \in skip THEN SkipLeading(Tail(s), skip) ELSE s

\* the first value of s, or why there is none
DecodeFrom(s, truncated) ==
    IF s = <<>> THEN [err |-> "EOF", val |-> <<>>]
    ELSE IF Head(s) # 2 THEN [err |-> "syntax", val |-> <<>>]
    ELSE IF MatchClose(s, 1, 0) = 0 THEN [err |-> truncated, val |-> <<>>]
    ELSE [err |-> "none", val |-> SubSeq(s, 1, MatchClose(s, 1, 0))]

\* json.Decoder.Decode: skips white space, reads one value and leaves what
\* follows it unread; io.EOF when there is nothing but white space
JSONDecode(b) == DecodeFrom(SkipLeading(b, {1}), "unexpected EOF")

\* xml.Decoder.Decode: skips character data up to the first start element,
\* reads that element and leaves what follows it unread; io.EOF when the
\* input ends before any element
XMLDecode(b) == DecodeFrom(SkipLeading(b, {1, 4}), "syntax")

\* DecodeJSON, DecodeXML: if err != nil && err != io.EOF { return err }
DecodeErr(e) == IF e = "EOF" THEN "none" ELSE e

\* what a successful or failed decode leaves in the target
Decoded(d, target) ==
    IF d.err = "none" THEN [set |-> TRUE, val |-> d.val] ELSE target

\* the read error is dropped
ReadErr_swallowed(fails) == "none"

\* ioutil.ReadAll's error
ReadErr(fails) == IF fails THEN "read" ELSE "none"

AppJSON == <<"application/json">>
AppXML == <<"application/xml">>

(* ------------------------- RequestModifier ---------------------------- *)
\* m.Header.Set: RequestModifier.Header is the request's own header map
RQ_HeaderSet(r, k, v) == [r EXCEPT !.Header = HeaderSet(r.Header, k, v)]

\* RequestModifier.Bytes
RQ_Bytes(r, body) == [r EXCEPT !.Body = ReqBody(body)]

\* String without the test of the method
RQ_String_noGuard(r, body) == [r EXCEPT !.Body = ReqBody(body)]

\* RequestModifier.String
RQ_String(r, body) ==
    IF r.Method = "GET" \/ r.Method = "HEAD"
    THEN r
    ELSE [r EXCEPT !.Body = ReqBody(body)]

\* ioutil.ReadAll(s.Request.Body) has read the stream to its end
RQ_Drained(r) == [r EXCEPT !.Body.data = <<>>]

\* the body is re-armed through String
RQ_Rearm_viaString(r, b) == RQ_String(r, b)

\* ReadBytes, ReadString: s.Bytes(buf)
RQ_Rearm(r, b) == RQ_Bytes(r, b)

\* RequestModifier.ReadBytes
RQ_ReadBytes(r) ==
    IF ReadErr(r.Body.fails) # "none"
    THEN [req |-> r, val |-> <<>>, err |-> ReadErr(r.Body.fails)]
    ELSE [req |-> RQ_Rearm(RQ_Drained(r), r.Body.data), val |-> r.Body.data,
          err |-> "none"]

\* RequestModifier.ReadString
RQ_ReadString(r) ==
    IF ReadErr(r.Body.fails) # "none"
    THEN [req |-> r, val |-> <<>>, err |-> ReadErr(r.Body.fails)]
    ELSE [req |-> RQ_Rearm(RQ_Drained(r), r.Body.data), val |-> r.Body.data,
          err |-> "none"]

\* RequestModifier.DecodeJSON
RQ_DecodeJSON(r, target) ==
    LET rb == RQ_ReadBytes(r)
        d == JSONDecode(rb.val)
    IN  IF rb.err # "none"
        THEN [req |-> rb.req, target |-> target, err |-> rb.err]
        ELSE [req |-> rb.req, target |-> Decoded(d, target),
              err |-> DecodeErr(d.err)]

\* RequestModifier.DecodeXML
RQ_DecodeXML(r, target) ==
    LET rb == RQ_ReadBytes(r)
        d == XMLDecode(rb.val)
    IN  IF rb.err # "none"
        THEN [req |-> rb.req, target |-> target, err |-> rb.err]
        ELSE [req |-> rb.req, target |-> Decoded(d, target),
              err |-> DecodeErr(d.err)]

\* the content length is left at zero
BufLen_zero(b) == 0

\* JSON, XML, Reader: int64(buf.Len())
BufLen(b) == Len(b)

\* RequestModifier.JSON
RQ_JSON(r, v) ==
    LET b == IF Verbatim(v) THEN v.data ELSE JSONEncode(v)
    IN  IF ~Verbatim(v) /\ ~Serializable(v)
        THEN [req |-> r, err |-> "encode"]
        ELSE [req |-> [r EXCEPT !.Body = ReqBody(b),
                                !.ContentLength = BufLen(b),
                                !.Header = HeaderSet(r.Header, "Content-Type",
                                                     AppJSON)],
              err |-> "none"]

\* RequestModifier.XML
RQ_XML(r, v) ==
    LET b == IF Verbatim(v) THEN v.data ELSE XMLEncode(v)
    IN  IF ~Verbatim(v) /\ ~Serializable(v)
        THEN [req |-> r, err |-> "encode"]
        ELSE [req |-> [r EXCEPT !.Body = ReqBody(b),
                                !.ContentLength = BufLen(b),
                                !.Header = HeaderSet(r.Header, "Content-Type",
                                                     AppXML)],
              err |-> "none"]

\* Reader: rc, the reader as an io.ReadCloser, nil for a nil reader
ReaderBody(rd) == IF rd.kind = "nil" THEN NilBody ELSE ReqBody(rd.data)

\* Reader: the type switch sets ContentLength for the in-memory readers
\* and leaves it for every other reader
ReaderLength(rd, old) ==
    IF rd.kind \in InMemoryReaders THEN BufLen(rd.data) ELSE old

\* RequestModifier.Reader
RQ_Reader(r, rd) ==
    [req |-> [r EXCEPT !.ContentLength = ReaderLength(rd, r.ContentLength),
                       !.Body = ReaderBody(rd)],
     err |-> "none"]

(* ------------ ResponseModifier: reading, encoding, Reader ------------- *)
\* ResponseModifier.ReadString
RM_ReadString(r) ==
    IF r.Body.fails
    THEN [res |-> r, buf |-> <<>>, err |-> TRUE]
    ELSE [res |-> RM_Bytes(r, r.Body.data), buf |-> r.Body.data, err |-> FALSE]

\* ResponseModifier.DecodeJSON
RM_DecodeJSON(r, target) ==
    LET rb == RM_ReadBytes(r)
        d == JSONDecode(rb.buf)
    IN  IF rb.err
        THEN [res |-> rb.res, target |-> target, err |-> ReadErr(rb.err)]
        ELSE [res |-> rb.res, target |-> Decoded(d, target),
              err |-> DecodeErr(d.err)]

\* ResponseModifier.DecodeXML
RM_DecodeXML(r, target) ==
    LET rb == RM_ReadBytes(r)
        d == XMLDecode(rb.buf)
    IN  IF rb.err
        THEN [res |-> rb.res, target |-> target, err |-> ReadErr(rb.err)]
        ELSE [res |-> rb.res, target |-> Decoded(d, target),
              err |-> DecodeErr(d.err)]

\* ResponseModifier.JSON
RM_JSON(r, v) ==
    LET b == IF Verbatim(v) THEN v.data ELSE JSONEncode(v)
    IN  IF ~Verbatim(v) /\ ~Serializable(v)
        THEN [res |-> r, err |-> "encode"]
        ELSE [res |-> [r EXCEPT !.Body = NewBody(b),
                                !.ContentLength = BufLen(b),
                                !.Header = HeaderSet(r.Header, "Content-Type",
                                                     AppJSON)],
              err |-> "none"]

\* ResponseModifier.XML
RM_XML(r, v) ==
    LET b == IF Verbatim(v) THEN v.data ELSE XMLEncode(v)
    IN  IF ~Verbatim(v) /\ ~Serializable(v)
        THEN [res |-> r, err |-> "encode"]
        ELSE [res |-> [r EXCEPT !.Body = NewBody(b),
                                !.ContentLength = BufLen(b),
                                !.Header = HeaderSet(r.Header, "Content-Type",
                                                     AppXML)],
              err |-> "none"]

\* ResponseModifier.Reader: req := s.Request; ...; req.Body = rc
RM_Reader(req, res, rd) ==
    [req |-> [req EXCEPT !.ContentLength = ReaderLength(rd, req.ContentLength),
                         !.Body = ReaderBody(rd)],
     res |-> res,
     err |-> "none"]

\* what a request modifier callback does with the request it is given
ReqModifiers == {"nothing", "header", "string", "both", "bytes"}

ApplyReqModifier(m, r) ==
    CASE m = "header" -> RQ_HeaderSet(r, "foo", <<"b">>)
      [] m = "string" -> RQ_String(r, HelloBody)
      [] m = "both" -> RQ_String(RQ_HeaderSet(r, "foo", <<"b">>), HelloBody)
      [] m = "bytes" -> RQ_Bytes(r, HelloBody)
      [] OTHER -> r

(* ------------------------ RequestInterceptor -------------------------- *)
\* the request side leaves the response side alone
respVars == <<method, hasNotifier, installed, notified, closed, headerWritten,
              buf, mutex, response, wHeader, out, pc, hcall, rbuf, ret, nOps,
              hist, mm>>

\* Filter(f ...Filter), between requests
\* Filter puts the new predicates before the registered ones
Register_prepend(old, fs) == fs \o old

\* Filter: s.Filters = append(s.Filters, f...)
Register(old, fs) == old \o fs

RI_Filter(fs) ==
    /\ ri.phase \in {"ready", "done"}
    /\ Len(ri.Filters) + Len(fs) <= MaxFilters
    /\ ri' = [ri EXCEPT !.Filters = Register(ri.Filters, fs),
                        !.regLog = Append(@, fs),
                        !.phase = "ready"]
    /\ UNCHANGED respVars

\* HandleHTTP(w, r, h) is called
HandleHTTP(w, r) ==
    /\ ri.phase \in {"ready", "done"}
    /\ ri.served < MaxRequests
    /\ ri' = [NewInterceptor EXCEPT
                 !.Filters = ri.Filters,
                 !.regLog = ri.regLog,
                 !.phase = "filter",
                 !.w = w, !.r = r, !.given = r,
                 !.i = 1,
                 !.served = ri.served + 1]
    /\ UNCHANGED respVars

\* filter reads every filter as rejecting
FilterRejects_inverted(ok) == ok

\* filter: if !filter(req) { return false }
FilterRejects(ok) == ~ok

\* HandleHTTP returns when a filter rejected
AfterReject_drop == "done"

\* HandleHTTP: after if s.filter(r) {...} comes h.ServeHTTP(w, r)
AfterReject == "next"

\* filter: one turn of the loop over s.Filters, or its end (return true)
FilterLoop ==
    /\ ri.phase = "filter"
    /\ IF ri.i > Len(ri.Filters)
       THEN ri' = [ri EXCEPT !.phase = "modify"]
       ELSE IF FilterRejects(FilterEval(ri.Filters[ri.i], ri.r))
            THEN ri' = [ri EXCEPT !.phase = AfterReject,
                                  !.evald = Append(@, ri.i)]
            ELSE ri' = [ri EXCEPT !.i = @ + 1, !.evald = Append(@, ri.i)]
    /\ UNCHANGED respVars

\* HandleHTTP: req := NewRequestModifier(r); s.Modifier(req)
RunModifier(m) ==
    /\ ri.phase = "modify"
    /\ ri' = [ri EXCEPT !.r = ApplyReqModifier(m, ri.r),
                        !.modCalls = @ + 1,
                        !.lastMod = m,
                        !.phase = "next"]
    /\ UNCHANGED respVars

\* HandleHTTP: h.ServeHTTP(w, r)
ServeNext ==
    /\ ri.phase = "next"
    /\ ri' = [ri EXCEPT !.nextCalls = @ + 1,
                        !.nextW = ri.w,
                        !.nextR = ri.r,
                        !.nextAfterMod = ri.modCalls,
                        !.phase = "done"]
    /\ UNCHANGED respVars

ReqInit == Init /\ method = "GET" /\ ~hasNotifier

ReqNext ==
    \/ \E fs \in FilterArgs : RI_Filter(fs)
    \/ \E w \in Writers, r \in Requests : HandleHTTP(w, r)
    \/ FilterLoop
    \/ \E m \in ReqModifiers : RunModifier(m)
    \/ ServeNext

ReqSpec == ReqInit /\ [][ReqNext]_vars

(* ------------------- calls on a message modifier ---------------------- *)
\* the modifiers leave the sink and the interceptor alone
modFrame == <<method, hasNotifier, installed, notified, closed, headerWritten,
              buf, mutex, response, wHeader, out, pc, hcall, rbuf, ret, nOps,
              hist, ri>>

ContentTypes == {EmptyHeader, HeaderSet(EmptyHeader, "Content-Type", <<"text/plain">>)}

\* NewRequestModifier(req) on a request of any shape
RequestSessions ==
    {[NoSession EXCEPT !.variant = "request",
                       !.req = NewRequest(meth, h, b)] :
        meth \in {"GET", "HEAD", "POST"},
        h \in ContentTypes,
        b \in {NilBody, FailingBody} \cup {ReqBody(x) : x \in Bodies}}

\* NewResponseModifier(req, res) on a response of any shape
ResponseSessions ==
    {[NoSession EXCEPT !.variant = "response",
                       !.req = NewRequest("GET", EmptyHeader, NilBody),
                       !.res = [NewResponse EXCEPT !.Header = h, !.Body = b,
                                                   !.ContentLength = Len(b.data)]] :
        h \in ContentTypes,
        b \in {BrokenBody} \cup {NewBody(x) : x \in Bodies}}

\* one call on the modifier has returned: op(arg) gave err and val and
\* left the request, the response and the decode target as given
Returned(op, arg, req, res, target, err, val) ==
    /\ mm' = [mm EXCEPT
                 !.req = req, !.res = res, !.target = target,
                 !.ops = @ + 1,
                 !.last = [op |-> op, arg |-> arg, err |-> err, val |-> val,
                           req |-> mm.req, res |-> mm.res,
                           target |-> mm.target],
                 !.prev = [op |-> mm.last.op, err |-> mm.last.err,
                           val |-> mm.last.val]]
    /\ UNCHANGED modFrame

CanCall == mm.variant # "none" /\ mm.ops < MaxModOps

\* ioutil.ReadAll needs a reader: the read calls are made on a message
\* that has a body
HasBody == mm.variant = "response" \/ ~mm.req.Body.nil

ModBytes(b) ==
    /\ CanCall
    /\ IF mm.variant = "request"
       THEN Returned("Bytes", [kind |-> "bytes", data |-> b],
                     RQ_Bytes(mm.req, b), mm.res, mm.target, "none", <<>>)
       ELSE Returned("Bytes", [kind |-> "bytes", data |-> b],
                     mm.req, RM_Bytes(mm.res, b), mm.target, "none", <<>>)

ModString(b) ==
    /\ CanCall
    /\ IF mm.variant = "request"
       THEN Returned("String", [kind |-> "string", data |-> b],
                     RQ_String(mm.req, b), mm.res, mm.target, "none", <<>>)
       ELSE Returned("String", [kind |-> "string", data |-> b],
                     mm.req, RM_String(mm.res, b), mm.target, "none", <<>>)

ModJSON(v) ==
    /\ CanCall
    /\ IF mm.variant = "request"
       THEN Returned("JSON", v, RQ_JSON(mm.req, v).req, mm.res, mm.target,
                     RQ_JSON(mm.req, v).err, <<>>)
       ELSE Returned("JSON", v, mm.req, RM_JSON(mm.res, v).res, mm.target,
                     RM_JSON(mm.res, v).err, <<>>)

ModXML(v) ==
    /\ CanCall
    /\ IF mm.variant = "request"
       THEN Returned("XML", v, RQ_XML(mm.req, v).req, mm.res, mm.target,
                     RQ_XML(mm.req, v).err, <<>>)
       ELSE Returned("XML", v, mm.req, RM_XML(mm.res, v).res, mm.target,
                     RM_XML(mm.res, v).err, <<>>)

ModReadBytes ==
    /\ CanCall /\ HasBody
    /\ IF mm.variant = "request"
       THEN Returned("ReadBytes", NoArg, RQ_ReadBytes(mm.req).req, mm.res,
                     mm.target, RQ_ReadBytes(mm.req).err,
                     RQ_ReadBytes(mm.req).val)
       ELSE Returned("ReadBytes", NoArg, mm.req, RM_ReadBytes(mm.res).res,
                     mm.target, ReadErr(RM_ReadBytes(mm.res).err),
                     RM_ReadBytes(mm.res).buf)

ModReadString ==
    /\ CanCall /\ HasBody
    /\ IF mm.variant = "request"
       THEN Returned("ReadString", NoArg, RQ_ReadString(mm.req).req, mm.res,
                     mm.target, RQ_ReadString(mm.req).err,
                     RQ_ReadString(mm.req).val)
       ELSE Returned("ReadString", NoArg, mm.req, RM_ReadString(mm.res).res,
                     mm.target, ReadErr(RM_ReadString(mm.res).err),
                     RM_ReadString(mm.res).buf)

ModDecodeJSON ==
    /\ CanCall /\ HasBody
    /\ IF mm.variant = "request"
       THEN Returned("DecodeJSON", NoArg, RQ_DecodeJSON(mm.req, mm.target).req,
                     mm.res, RQ_DecodeJSON(mm.req, mm.target).target,
                     RQ_DecodeJSON(mm.req, mm.target).err, <<>>)
       ELSE Returned("DecodeJSON", NoArg, mm.req,
                     RM_DecodeJSON(mm.res, mm.target).res,
                     RM_DecodeJSON(mm.res, mm.target).target,
                     RM_DecodeJSON(mm.res, mm.target).err, <<>>)

ModDecodeXML ==
    /\ CanCall /\ HasBody
    /\ IF mm.variant = "request"
       THEN Returned("DecodeXML", NoArg, RQ_DecodeXML(mm.req, mm.target).req,
                     mm.res, RQ_DecodeXML(mm.req, mm.target).target,
                     RQ_DecodeXML(mm.req, mm.target).err, <<>>)
       ELSE Returned("DecodeXML", NoArg, mm.req,
                     RM_DecodeXML(mm.res, mm.target).res,
                     RM_DecodeXML(mm.res, mm.target).target,
                     RM_DecodeXML(mm.res, mm.target).err, <<>>)

ModReader(rd) ==
    /\ CanCall
    /\ IF mm.variant = "request"
       THEN Returned("Reader", rd, RQ_Reader(mm.req, rd).req, mm.res,
                     mm.target, RQ_Reader(mm.req, rd).err, <<>>)
       ELSE Returned("Reader", rd, RM_Reader(mm.req, mm.res, rd).req,
                     RM_Reader(mm.req, mm.res, rd).res, mm.target,
                     RM_Reader(mm.req, mm.res, rd).err, <<>>)

ModInit ==
    /\ method = "GET" /\ hasNotifier = FALSE
    /\ InitSink
    /\ mm \in RequestSessions \cup ResponseSessions

ModNext ==
    \/ \E b \in Payloads : ModBytes(b)
    \/ \E b \in Payloads : ModString(b)
    \/ \E v \in Values : ModJSON(v)
    \/ \E v \in Values : ModXML(v)
    \/ \E rd \in Readers : ModReader(rd)
    \/ ModReadBytes
    \/ ModReadString
    \/ ModDecodeJSON
    \/ ModDecodeXML

ModSpec == ModInit /\ [][ModNext]_vars

DeclaredLength == Atoi(HeaderGet(response.Header, "Content-Length"))

CountKind(kind) == Cardinality({i \in 1..Len(out) : out[i].kind = kind})

\* the byte sequences the real sink's Write was given, in order
BodiesOut == SelectSeq(out, LAMBDA e : e.kind = "body")

\* the bytes the real sink's Write was given, joined in order
RECURSIVE JoinData(_)
JoinData(s) == IF s = <<>> THEN <<>> ELSE Head(s).data \o JoinData(Tail(s))

BytesOut == JoinData(BodiesOut)

InClose(t) == pc[t] \in {"c_crit", "c_release", "c_unlock"}

\* t waits for a mutex that nobody is going to unlock
Blocked(t) == pc[t] = "c_lock" /\ mutex /\ \A u \in Threads : ~InClose(u)

\* the disconnect task closed the sink while the handler was collecting a
\* body of declared length N > 0 and the running total was below N
EarlyClose ==
    /\ hist.closedBy = "notify"
    /\ hist.atClose.declared > 0
    /\ hist.atClose.total < hist.atClose.declared
    /\ hist.atClose.hcall # "DoWrite"

\* the handler made one Write, on a sink with no declared length, and that
\* call has returned; nothing else touched the sink
OneWriteNoLength ==
    /\ installed /\ pc["handler"] = "idle"
    /\ hist.writes = 1 /\ hist.firstNoLen
    /\ hist.directFlush = 0 /\ hist.directClose = 0
    /\ hist.closedBy # "notify"

(* ------------------------------ claims -------------------------------- *)
\* C1: with a declared Content-Length N > 0 the modifier callback is never
\* invoked before the running total of written bytes reaches N and never
\* invoked a second time, whatever the handler writes (zero-length and
\* trailing writes included).
C1_ModifierExactlyOnce ==
    (installed /\ DeclaredLength > 0) =>
        /\ hist.modCalls <= 1
        /\ hist.modCalls >= 1 => hist.written >= DeclaredLength

\* C2: on a sink with no declared Content-Length, when the first Write has
\* returned the modifier has been invoked exactly once and the response has
\* been flushed exactly once, header emission then body emission.
C2_NoLengthWriteFlushesOnce ==
    OneWriteNoLength =>
        /\ hist.modCalls = 1
        /\ CountKind("header") = 1
        /\ CountKind("body") = 1
        /\ out # <<>> /\ out[Len(out)].kind = "body"

\* C3: on a sink with no declared Content-Length, the bytes the flush writes
\* to the real sink are exactly the chunk given to the first Write.
C3_NoLengthChunkReachesSink ==
    OneWriteNoLength =>
        /\ Len(BodiesOut) = 1
        /\ BodiesOut[1].data = hist.firstChunk

\* C4: nothing (status, header field or body byte) reaches the real sink of
\* an intercepted response while the modifier has not been invoked.
C4_ModifierBeforeEmission ==
    (installed /\ out # <<>>) => hist.modCalls >= 1

\* C5: for one sink the header phase (status code, header copy) is emitted
\* at most once, and every body emission comes after it, for any calls of
\* DoWrite and Write.
C5_HeaderOnceBeforeBody ==
    installed =>
        /\ CountKind("header") <= 1
        /\ CountKind("status") <= 1
        /\ \A i \in 1..Len(out) :
              /\ out[i].kind = "body" =>
                    \E j \in 1..(i - 1) : out[j].kind = "header"
              /\ out[i].kind = "header" =>
                    \A j \in 1..Len(out) : out[j].kind = "status" => j < i

\* the flush ran twice (DoWrite called twice by the handler, both returned)
\* and a body reached the real sink
C5_Witness ==
    /\ installed /\ pc["handler"] = "idle"
    /\ hist.directFlush >= 2
    /\ CountKind("body") = 1 /\ CountKind("header") = 1

\* C6: Close is idempotent: over N successive calls by one caller the
\* closed transition and the body's Close happen once and no call blocks.
C6_CloseIdempotent ==
    (installed /\ hist.closeCalls = hist.directClose) =>
        /\ hist.closeTrans <= 1
        /\ hist.bodyCloses <= 1
        /\ ~Blocked("handler")

\* C7: when the disconnect task calls Close while the write path is inside
\* Write or the flush (whose writeBody calls Close), then in every
\* interleaving closed is set exactly once, the body is closed at most
\* once, and no Close call is left waiting for the mutex.
C7_ConcurrentCloseSafe ==
    (installed /\ hist.directClose = 0) =>
        /\ hist.closeTrans <= 1
        /\ hist.bodyCloses <= 1
        /\ (closed \/ hist.closeDone >= 1) => hist.closeTrans = 1
        /\ \A t \in Threads : ~Blocked(t)

\* the disconnect task set closed while the write path was inside its
\* flush, the body went out, and both Close calls have returned
C7_Witness ==
    /\ installed /\ hist.directClose = 0
    /\ hist.closedBy = "notify"
    /\ CountKind("body") = 1
    /\ hist.closeCalls = 2 /\ hist.closeDone = 2

\* C8: after the disconnect closed the sink mid-collection (declared length
\* N, running total below N) nothing is ever emitted to the real sink,
\* whatever the handler writes afterwards.
C8_NoFlushAfterEarlyClose ==
    EarlyClose => out = <<>>

\* closed mid-collection, and the handler has gone on writing until the
\* running total reached the declared length
C8_Witness ==
    /\ EarlyClose
    /\ pc["handler"] = "idle"
    /\ hist.written >= hist.atClose.declared
    /\ response.ContentLength = DeclaredLength

\* C9: after the disconnect closed the sink mid-collection the modifier
\* callback is never invoked, even when the handler goes on writing until
\* the running total reaches N.
C9_NoModifierAfterEarlyClose ==
    EarlyClose => hist.modCalls = 0

\* C10: once the disconnect task has set closed, no status, header or body
\* byte is written to the real sink, in any interleaving.
C10_NoOutputAfterClose ==
    hist.closedBy = "notify" => hist.lateOut = 0

\* C11: with the sink installed, once the peer-closed notification has fired
\* the sink eventually is closed with its buffer released, whatever the
\* handler does.
C11_DisconnectCloses ==
    (installed /\ notified) ~> hist.relSinceFire

\* what the disconnect goroutine does achieve: the sink ends up closed
C11_DisconnectMarksClosed ==
    (installed /\ notified) ~> closed

\* C12: for OPTIONS and HEAD the middleware installs no sink: the handler
\* runs once on the real sink, each of its writes is a write of the real
\* sink with the same bytes, the modifier is never invoked, and neither the
\* interceptor nor the disconnect task does anything.
C12_BypassUntouched ==
    (method \in {"OPTIONS", "HEAD"} /\ pc["handler"] # "start") =>
        /\ ~installed
        /\ hist.handlerRuns = 1
        /\ hist.modCalls = 0
        /\ Len(BodiesOut) = hist.writes
        /\ BytesOut = Chunk(0, hist.written)
        /\ ~closed /\ buf = <<>> /\ ~headerWritten /\ response = NewResponse
        /\ pc["notify"] = "off" /\ hist.closeCalls = 0

C12_Witness ==
    /\ method = "HEAD" /\ pc["handler"] = "done"
    /\ hist.writes = 2 /\ hist.written = 3
    /\ CountKind("status") = 1

\* C13: once the body phase of a flush has run on a sink that was not
\* closed, the triggering call does not hang in the deferred Close and, when
\* it has returned, the sink is closed with its buffer released and the call
\* returned an error exactly when reading the pending body or writing to
\* the real sink failed.
C13_BodyPhaseAlwaysCloses ==
    (installed /\ hist.bodyPhase.ran /\ nOps = hist.bodyPhase.ops) =>
        /\ ~Blocked("handler")
        /\ pc["handler"] \in {"idle", "done"} =>
               /\ closed /\ buf = <<>>
               /\ ret.err <=> hist.bodyPhase.failed

\* the body could not be read: nothing was written, the call returned the
\* error and the sink is closed
C13_ReadFailed ==
    /\ installed /\ hist.bodyPhase.ran /\ nOps = hist.bodyPhase.ops
    /\ pc["handler"] = "idle"
    /\ response.Body = BrokenBody /\ hist.bodyPhase.failed
    /\ CountKind("body") = 0 /\ ret.err /\ closed

\* the real sink refused the body: the call returned the error and the
\* handler's own Close closed the sink
C13_Witness ==
    /\ installed /\ hist.bodyPhase.ran /\ nOps = hist.bodyPhase.ops
    /\ pc["handler"] = "idle"
    /\ response.Body # BrokenBody /\ hist.bodyPhase.failed
    /\ CountKind("body") = 1 /\ ret.err
    /\ closed /\ hist.closedBy = "handler"

\* C14: when the one modifier invocation of a response sets the status to
\* 404 and replaces the body, the real sink is never given another status
\* code nor other body bytes than the replacement, and once the flush of that
\* write has closed the sink the real sink has been given exactly one status,
\* 404, and exactly one body, the replacement.
C14_RewriteReachesSink ==
    (installed /\ hist.lastMod = "rewrite" /\ hist.modCalls = 1
               /\ hist.directFlush = 0) =>
        /\ \A i \in 1..Len(out) :
               /\ out[i].kind = "status" => out[i].code = StatusNotFound
               /\ out[i].kind = "body" => out[i].data = ReplBody
        /\ (hist.closedBy = "handler" /\ hist.directClose = 0) =>
               /\ CountKind("status") = 1
               /\ CountKind("body") = 1
               /\ BytesOut = ReplBody

\* the handler wrote two chunks, the modifier rewrote, the flush is over
C14_Witness ==
    /\ installed /\ hist.lastMod = "rewrite" /\ hist.modCalls = 1
    /\ hist.directFlush = 0 /\ hist.directClose = 0
    /\ hist.closedBy = "handler" /\ pc["handler"] = "idle"
    /\ hist.writes = 2 /\ hist.modSeen = <<1, 2>>
    /\ out = <<Ev("status", StatusNotFound, <<>>), Ev("header", 0, <<>>),
               Ev("body", 0, ReplBody)>>

\* C15: with a declared length N > 0 and no DoWrite by the handler itself,
\* while the handler has written fewer than N bytes the modifier has not been
\* invoked and the real sink has been given nothing; and a modifier
\* invocation that no Close preceded saw the chunks written so far joined in
\* write order, N bytes in all.
C15_ChunksAccumulate ==
    (installed /\ DeclaredLength > 0) =>
        /\ (hist.written < DeclaredLength /\ hist.directFlush = 0) =>
               hist.modCalls = 0 /\ out = <<>>
        /\ (hist.modCalls >= 1 /\ hist.closesAtMod = 0) =>
               hist.modSeen = Chunk(0, DeclaredLength)

\* two writes of one byte against a declared length of 2: the modifier has
\* just been invoked on both bytes
C15_Witness ==
    /\ installed /\ DeclaredLength = 2 /\ hist.writes = 2
    /\ hist.firstChunk = <<1>> /\ hist.modCalls = 1 /\ hist.closesAtMod = 0
    /\ hist.modSeen = <<1, 2>> /\ pc["handler"] = "wh_check" /\ out = <<>>

\* C16: with a declared length N > 0, once the handler's writes have reached
\* or passed N and the call has returned, the modifier has been invoked and
\* the response flushed (no Close or DoWrite by the handler itself, no close
\* by the disconnect task).
C16_ReachedOrExceededCompletes ==
    (/\ installed /\ DeclaredLength > 0 /\ hist.written >= DeclaredLength
     /\ pc["handler"] = "idle"
     /\ hist.directFlush = 0 /\ hist.directClose = 0
     /\ hist.closedBy # "notify") =>
        hist.modCalls >= 1 /\ headerWritten /\ closed

\* C17: a Write that starts on a closed sink, or when the running total
\* has already reached a declared length N > 0, gives the real sink nothing,
\* leaves the real sink's header as it was, does not hang and returns a nil
\* error.
C17_LateWriteNoOp ==
    (installed /\ hist.lateWrite.late /\ nOps = hist.lateWrite.ops) =>
        /\ Len(out) = hist.lateWrite.outLen
        /\ wHeader = hist.lateWrite.wh
        /\ ~Blocked("handler")
        /\ pc["handler"] \in {"idle", "done"} => ~ret.err

\* a trailing Write after a complete flush has returned
C17_Witness ==
    /\ installed /\ hist.lateWrite.late /\ nOps = hist.lateWrite.ops
    /\ pc["handler"] = "idle" /\ closed /\ hist.closedBy = "handler"
    /\ hist.directClose = 0 /\ hist.writes = 2
    /\ CountKind("body") = 1 /\ BytesOut = <<1>>
    /\ ret = [n |-> 0, err |-> FALSE]

\* C18: whenever the sink is closed and no Close is in progress, the
\* sink's buffer is empty, whatever calls follow the close.
C18_ClosedBufferReleased ==
    (installed /\ closed /\ \A t \in Threads : ~InClose(t)) => buf = <<>>

\* C19: HandleHTTP invokes the modifier once when every registered filter
\* returns true for the request as it was given (always, with no filter) and
\* not at all when some filter returns false; while the filters are being
\* evaluated it has not been invoked.
C19_ModifierIffFiltersPass ==
    LET pass == \A j \in 1..Len(ri.Filters) : FilterEval(ri.Filters[j], ri.given)
    IN  /\ ri.phase = "filter" => ri.modCalls = 0
        /\ ri.phase = "modify" => pass /\ ri.modCalls = 0
        /\ ri.phase \in {"next", "done"} =>
               ri.modCalls = (IF pass THEN 1 ELSE 0)

\* a request that the second of two filters rejected went on unmodified
C19_Witness ==
    /\ ri.phase = "done" /\ ri.Filters = <<"any", "post">>
    /\ ri.given.Method = "GET" /\ ri.modCalls = 0 /\ ri.evald = <<1, 2>>

\* C20: when HandleHTTP is over the next handler has been called exactly
\* once, with the sink HandleHTTP was given, after the modifier if it ran,
\* and it saw the request with the modifier's edits (the given request when
\* the modifier did not run); before that it has not been called.
C20_NextCalledOnce ==
    /\ ri.phase \in {"filter", "modify", "next"} => ri.nextCalls = 0
    /\ ri.phase = "done" =>
           /\ ri.nextCalls = 1
           /\ ri.nextW = ri.w /\ ri.nextW \in Writers
           /\ ri.nextAfterMod = ri.modCalls
           /\ ri.nextR = (IF ri.modCalls = 1
                          THEN ApplyReqModifier(ri.lastMod, ri.given)
                          ELSE ri.given)

\* the next handler saw the header and the body the modifier set on a POST
C20_Witness ==
    /\ ri.phase = "done" /\ ri.modCalls = 1 /\ ri.lastMod = "both"
    /\ ri.given.Method = "POST" /\ ri.given.Body = NilBody
    /\ HeaderGet(ri.nextR.Header, "foo") = <<"b">>
    /\ ri.nextR.Body = ReqBody(HelloBody)
    /\ ri.nextCalls = 1 /\ ri.nextW = "w2"

\* C21: RequestModifier.String on a GET or HEAD request returns leaving the
\* request as it was, its body included (absent when it was absent); on any
\* other method the body becomes a stream over exactly the given bytes and
\* nothing else of the request changes.
C21_StringMethodGuard ==
    (mm.variant = "request" /\ mm.last.op = "String") =>
        /\ mm.last.err = "none"
        /\ IF mm.last.req.Method \in {"GET", "HEAD"}
           THEN mm.req = mm.last.req
           ELSE mm.req = [mm.last.req EXCEPT !.Body = ReqBody(mm.last.arg.data)]

\* String on a GET request without a body: the body is still absent
C21_Witness ==
    /\ mm.variant = "request" /\ mm.last.op = "String"
    /\ mm.last.req.Method = "GET" /\ mm.last.req.Body = NilBody
    /\ mm.req.Body = NilBody /\ mm.last.arg.data = <<4>>

\* C22: RequestModifier.Bytes on a GET or HEAD request leaves the request,
\* its body included, as it was.
C22_BytesMethodGuard ==
    (/\ mm.variant = "request" /\ mm.last.op = "Bytes"
     /\ mm.last.req.Method \in {"GET", "HEAD"}) =>
        mm.req = mm.last.req

\* the last call was a read of the whole body
LastWasRead == mm.last.op \in {"ReadBytes", "ReadString"}

\* C23: after a successful ReadBytes or ReadString, on a request or a
\* response modifier, the call returned the bytes of the body, the body is a
\* fresh stream over those bytes with the rest of the message as it was, a
\* further read returns the same bytes, and so did this read when the call
\* before it was a successful read too.
C23_ReadRearms ==
    (LastWasRead /\ mm.last.err = "none") =>
        /\ mm.variant = "request" =>
               /\ mm.last.val = mm.last.req.Body.data
               /\ mm.req = [mm.last.req EXCEPT !.Body = ReqBody(mm.last.val)]
               /\ RQ_ReadBytes(mm.req).err = "none"
               /\ RQ_ReadBytes(mm.req).val = mm.last.val
               /\ RQ_ReadString(mm.req).val = mm.last.val
        /\ mm.variant = "response" =>
               /\ mm.last.val = mm.last.res.Body.data
               /\ mm.res = [mm.last.res EXCEPT !.Body = NewBody(mm.last.val)]
               /\ ~RM_ReadBytes(mm.res).err
               /\ RM_ReadBytes(mm.res).buf = mm.last.val
               /\ RM_ReadString(mm.res).buf = mm.last.val
        /\ (mm.prev.op \in {"ReadBytes", "ReadString"} /\ mm.prev.err = "none") =>
               mm.last.val = mm.prev.val

\* two reads in a row of the body of a GET request returned the same bytes
C23_Witness ==
    /\ mm.variant = "request" /\ mm.req.Method = "GET"
    /\ mm.prev.op = "ReadBytes" /\ mm.prev.err = "none"
    /\ mm.last.op = "ReadString" /\ mm.last.err = "none"
    /\ mm.prev.val = <<2, 4, 3>> /\ mm.last.val = <<2, 4, 3>>
    /\ mm.req.Body = ReqBody(<<2, 4, 3>>)

\* the body the last call found failed when it was read
LastBodyFailed ==
    IF mm.variant = "request" THEN mm.last.req.Body.fails
    ELSE mm.last.res.Body.fails

\* C24: when the body stream fails while it is drained, ReadBytes,
\* ReadString, DecodeJSON and DecodeXML return the read error and an empty
\* result, leave the message (its body included) as it was and leave the
\* decode target as it was.
C24_ReadErrorReturned ==
    (/\ mm.last.op \in {"ReadBytes", "ReadString", "DecodeJSON", "DecodeXML"}
     /\ LastBodyFailed) =>
        /\ mm.last.err = "read"
        /\ mm.last.val = <<>>
        /\ mm.req = mm.last.req /\ mm.res = mm.last.res
        /\ mm.target = mm.last.target

\* DecodeXML on a response whose body fails, after a read that failed too
C24_Witness ==
    /\ mm.variant = "response" /\ mm.last.op = "DecodeXML"
    /\ mm.last.res.Body = BrokenBody /\ mm.last.err = "read"
    /\ mm.prev.op = "ReadString" /\ mm.prev.err = "read"
    /\ mm.res.Body = BrokenBody /\ mm.target = NoTarget

\* the message the modifier is for, as it is and as the last call found it
Msg == IF mm.variant = "request" THEN mm.req ELSE mm.res
LastMsg == IF mm.variant = "request" THEN mm.last.req ELSE mm.last.res

\* C25: after a successful JSON(v) or XML(v), on a request or a response
\* modifier, the body is a readable stream over the encoding of v (v itself
\* for a string or a byte slice), the content-length field is the number of
\* bytes of that body, and Content-Type holds the one value application/json
\* or application/xml, whatever it held before.
C25_StructuredBodySet ==
    (mm.last.op \in {"JSON", "XML"} /\ mm.last.err = "none") =>
        /\ ~Msg.Body.fails
        /\ Msg.Body.data =
               (IF Verbatim(mm.last.arg) THEN mm.last.arg.data
                ELSE IF mm.last.op = "JSON" THEN JSONEncode(mm.last.arg)
                ELSE XMLEncode(mm.last.arg))
        /\ mm.variant = "request" => ~Msg.Body.nil
        /\ Msg.ContentLength = Len(Msg.Body.data)
        /\ Msg.Header["Content-Type"] =
               <<IF mm.last.op = "JSON" THEN AppJSON ELSE AppXML>>

\* JSON of a struct on a response that had Content-Type text/plain and a
\* body of another length
C25_Witness ==
    /\ mm.variant = "response" /\ mm.last.op = "JSON" /\ mm.last.err = "none"
    /\ mm.last.arg.kind = "struct"
    /\ HeaderGet(mm.last.res.Header, "Content-Type") = <<"text/plain">>
    /\ mm.last.res.ContentLength = 1
    /\ mm.res.Body.data = <<2, 4, 3, 1>> /\ mm.res.ContentLength = 4
    /\ HeaderGet(mm.res.Header, "Content-Type") = AppJSON

\* C26: JSON(v) and XML(v) with a value that cannot be serialized return
\* the encoding error and leave the message as it was: body, content-length
\* field and Content-Type header keep their values.
C26_EncodeErrorLeavesMessage ==
    (mm.last.op \in {"JSON", "XML"} /\ mm.last.arg.kind = "unsupported") =>
        /\ mm.last.err = "encode"
        /\ mm.req = mm.last.req /\ mm.res = mm.last.res
        /\ Msg.Body = LastMsg.Body
        /\ Msg.ContentLength = LastMsg.ContentLength
        /\ Msg.Header = LastMsg.Header

\* XML of an unsupported value on a POST request that carries a body and a
\* Content-Type
C26_Witness ==
    /\ mm.variant = "request" /\ mm.last.op = "XML"
    /\ mm.last.arg.kind = "unsupported" /\ mm.last.err = "encode"
    /\ mm.req.Method = "POST" /\ mm.req.Body = ReqBody(<<2, 3>>)
    /\ mm.req.ContentLength = 2
    /\ HeaderGet(mm.req.Header, "Content-Type") = <<"text/plain">>

\* C27: after ResponseModifier.Reader(r) with a reader r the body of the
\* response is a readable stream over the bytes of r, and the request of the
\* modifier is as it was.
C27_ResponseReaderSetsResponse ==
    (/\ mm.variant = "response" /\ mm.last.op = "Reader"
     /\ mm.last.arg.kind # "nil") =>
        /\ mm.res.Body = NewBody(mm.last.arg.data)
        /\ mm.req = mm.last.req

\* C28: after RequestModifier.Reader(r) the content-length field of the
\* request is the length of r for a bytes.Buffer, bytes.Reader or
\* strings.Reader and unset (zero) for any other reader, whatever it was
\* before the call.
C28_RequestReaderLength ==
    (mm.variant = "request" /\ mm.last.op = "Reader") =>
        mm.req.ContentLength =
            (IF mm.last.arg.kind \in InMemoryReaders
             THEN Len(mm.last.arg.data) ELSE 0)

\* b is one value, with nothing but white space around it
WellFormed(b) ==
    LET s == SkipLeading(b, {1})
        n == MatchClose(s, 1, 0)
    IN  /\ s # <<>> /\ Head(s) = 2 /\ n > 0
        /\ SkipLeading(SubSeq(s, n + 1, Len(s)), {1}) = <<>>

\* b has content and is not a value
Malformed(b) == SkipLeading(b, {1}) # <<>> /\ ~WellFormed(b)

\* C29: DecodeJSON and DecodeXML on an empty body return no error and leave
\* the decode target as it was; on a body that has content and is malformed
\* they return an error.
C29_EmptyVsMalformed ==
    (mm.last.op \in {"DecodeJSON", "DecodeXML"} /\ ~LastBodyFailed) =>
        /\ LastMsg.Body.data = <<>> =>
               mm.last.err = "none" /\ mm.target = mm.last.target
        /\ Malformed(LastMsg.Body.data) => mm.last.err # "none"

\* the part of C29 that holds: an empty body is no error and leaves the
\* target, and a body that does not start with a value (JSON) or that has a
\* close before any open (XML) is an error
C29_EmptyIsNoError ==
    (mm.last.op \in {"DecodeJSON", "DecodeXML"} /\ ~LastBodyFailed) =>
        /\ LastMsg.Body.data = <<>> =>
               mm.last.err = "none" /\ mm.target = mm.last.target
        /\ LastMsg.Body.data = <<3>> => mm.last.err = "syntax"

\* op(arg) is a replace-body operation: Bytes, String, JSON, XML, or Reader
\* over an in-memory buffer
ReplacesBody(op, kind) ==
    \/ op \in {"Bytes", "String", "JSON", "XML"}
    \/ op = "Reader" /\ kind \in InMemoryReaders

\* C30: while every call made on the modifier was a replace-body operation,
\* the content-length field of the message equals the number of bytes of its
\* body.
C30_ContentLengthConsistent ==
    (/\ mm.variant # "none"
     /\ mm.ops >= 1 => ReplacesBody(mm.last.op, mm.last.arg.kind)
     /\ mm.ops >= 2 => mm.prev.op \in {"Bytes", "String", "JSON", "XML"}
     /\ ~Msg.Body.fails) =>
        Msg.ContentLength = Len(Msg.Body.data)


\* the sink as NewWriterInterceptor returned it: the handler has made no
\* call on it and no Close call has started
Fresh == installed /\ nOps = 0 /\ hist.closeCalls = 0

\* C31: a newly constructed sink is collecting: pending status 200 with
\* reason "200 OK", no header field, empty body, empty buffer,
\* headerWritten and closed false, and nothing given to the real sink.
C31_ConstructedCollecting ==
    Fresh =>
        /\ response.StatusCode = 200
        /\ response.Status = <<<<"2", "0", "0">>, "OK">>
        /\ DOMAIN response.Header = {}
        /\ response.Body = [data |-> <<>>, fails |-> FALSE]
        /\ response.ContentLength = 0
        /\ buf = <<>>
        /\ ~headerWritten /\ ~closed /\ ~mutex
        /\ out = <<>>

\* the middleware has built the sink and the handler is about to make its
\* first call, the disconnect task waiting beside it
C31_Witness ==
    /\ Fresh
    /\ pc["handler"] = "idle"
    /\ pc["notify"] = "wait"
    /\ notified


\* the handler's last call on the sink was WriteHeader, and it has returned
AfterWriteHeader == installed /\ hist.lastWH.ops = nOps /\ nOps > 0

\* what WriteHeader(code) may change in a sink that is not closed: the
\* pending status code and its reason phrase, nothing on the real sink
WriteHeaderFrame ==
    /\ response = [hist.lastWH.before EXCEPT
                      !.StatusCode = hist.lastWH.code,
                      !.Status = StatusLine(hist.lastWH.code)]
    /\ Len(out) = hist.lastWH.outLen
    /\ wHeader = hist.lastWH.wh

\* C32: WriteHeader(code) on a collecting sink updates only the pending
\* status code and its reason phrase and emits nothing; on a closed sink it
\* leaves the pending status and the real sink as they were.
C32_WriteHeaderCollectingOnly ==
    AfterWriteHeader =>
        IF hist.lastWH.closed
        THEN /\ response.StatusCode = hist.lastWH.before.StatusCode
             /\ response.Status = hist.lastWH.before.Status
             /\ Len(out) = hist.lastWH.outLen
             /\ wHeader = hist.lastWH.wh
        ELSE WriteHeaderFrame

\* what the code does whether or not the sink is closed
C32_WriteHeaderAlwaysSets ==
    AfterWriteHeader => WriteHeaderFrame

\* WriteHeader on a sink that has flushed and closed, with another status
C32_LateStatus ==
    /\ AfterWriteHeader
    /\ hist.lastWH.closed
    /\ headerWritten
    /\ hist.lastWH.code # hist.lastWH.before.StatusCode


\* the real sink's header collection before the middleware is entered
SinkHeaderAtStart == HeaderSet(EmptyHeader, "Via", <<"r">>)

\* every field of header a is in header b with the same value
HeaderWithin(a, b) == \A k \in DOMAIN a : k \in DOMAIN b /\ b[k] = a[k]

\* until the flush the real sink's header is as it was
C33_HiddenUntilFlush ==
    (installed /\ ~headerWritten) => wHeader = SinkHeaderAtStart

\* the modifier was given the fields as the handler had set them
C33_PresentedWhenInvoked ==
    (installed /\ hist.atFlush.done /\ hist.atFlush.modCalls >= 1) =>
        HeaderWithin(hist.atFlush.handler, hist.atFlush.modHeader)

\* the flush copied every pending field, the modifier's value where it set
\* one, over the real sink's header and left the other fields alone
C33_FlushCopiesPending ==
    (installed /\ hist.atFlush.done) =>
        /\ HeaderWithin(hist.atFlush.pending, wHeader)
        /\ (hist.atFlush.modCalls >= 1 /\ hist.atFlush.lastMod = "tag")
              => wHeader["X-Tag"] = <<<<"m">>>>
        /\ \A k \in DOMAIN hist.atFlush.whBefore \ DOMAIN hist.atFlush.pending :
              k \in DOMAIN wHeader /\ wHeader[k] = hist.atFlush.whBefore[k]
        /\ DOMAIN wHeader =
              DOMAIN hist.atFlush.whBefore \cup DOMAIN hist.atFlush.pending

\* C33: the header fields the handler sets through Header() stay out of the
\* real sink until the flush, are presented to the modifier, and after the
\* flush the real sink holds every pending field with the value the
\* modifier left, its other fields unchanged.
C33_HeaderThroughModifier ==
    /\ C33_HiddenUntilFlush
    /\ (installed /\ hist.atFlush.done) =>
          /\ hist.atFlush.modCalls >= 1
          /\ HeaderWithin(hist.atFlush.handler, hist.atFlush.modHeader)
    /\ C33_FlushCopiesPending

\* the handler and the modifier both set X-Tag and the flush has happened
C33_ModifierWins ==
    /\ installed /\ hist.atFlush.done
    /\ "X-Tag" \in DOMAIN hist.atFlush.handler
    /\ hist.atFlush.modCalls = 1 /\ hist.atFlush.lastMod = "tag"
    /\ wHeader["X-Tag"] = <<<<"m">>>>


\* the predicates of successive Filter calls, in the order they were given
RECURSIVE Flatten(_)
Flatten(ss) == IF ss = <<>> THEN <<>> ELSE Head(ss) \o Flatten(Tail(ss))

\* the position of the first predicate, in registration order, that returns
\* false for request r; one past the last when none does
FirstRejecting(fs, r) ==
    IF \E j \in 1..Len(fs) : ~FilterEval(fs[j], r)
    THEN CHOOSE j \in 1..Len(fs) :
            /\ ~FilterEval(fs[j], r)
            /\ \A k \in 1..(j - 1) : FilterEval(fs[k], r)
    ELSE Len(fs) + 1

\* C34: Filter appends its predicates after the registered ones, in order
\* across calls, and HandleHTTP evaluates them in registration order up to
\* and including the first that returns false, and no later one.
C34_FiltersInRegistrationOrder ==
    LET reg == Flatten(ri.regLog)
        stop == FirstRejecting(reg, ri.given)
        last == IF stop > Len(reg) THEN Len(reg) ELSE stop
    IN  /\ ri.Filters = reg
        /\ ri.phase = "filter" =>
               /\ ri.evald = [j \in 1..(ri.i - 1) |-> j]
               /\ ri.i <= stop
        /\ ri.phase \in {"modify", "next", "done"} =>
               ri.evald = [j \in 1..last |-> j]

\* two Filter calls registered one predicate each; the first registered
\* rejected the request and the second was not evaluated
C34_Witness ==
    /\ ri.regLog = <<<<"post">>, <<"any">>>>
    /\ ri.phase = "done" /\ ri.given.Method = "GET"
    /\ ri.evald = <<1>> /\ ri.modCalls = 0


\* the positions of step s in the middleware's log
StepsOf(s) == {i \in 1..Len(hist.serveLog) : hist.serveLog[i] = s}

\* C35: for a request that is neither OPTIONS nor HEAD the middleware calls
\* the wrapped handler exactly once, with the interception sink, whether or
\* not the real sink can notify; it starts one disconnect task when the
\* real sink can notify and none otherwise, before the handler runs.
C35_OneHandlerRunOneTask ==
    (pc["handler"] # "start" /\ method \notin {"OPTIONS", "HEAD"}) =>
        /\ installed
        /\ hist.handlerRuns = 1
        /\ Cardinality(StepsOf("handler")) = 1
        /\ Cardinality(StepsOf("go")) = (IF hasNotifier THEN 1 ELSE 0)
        /\ \A g \in StepsOf("go"), h \in StepsOf("handler") : g < h
        /\ \A n \in StepsOf("new"), h \in StepsOf("handler") : n < h
        /\ (pc["notify"] = "off") <=> ~hasNotifier

\* the handler wrote through the sink and returned, and the one disconnect
\* task closed the sink
C35_Witness ==
    /\ method = "GET" /\ hasNotifier
    /\ pc["handler"] = "done" /\ pc["notify"] = "done"
    /\ hist.handlerRuns = 1 /\ hist.writes >= 1
    /\ hist.closedBy = "notify"


\* thread t is inside a Close call, from its Lock to its return
Closing(t) == pc[t] \in {"c_lock", "c_crit", "c_release", "c_unlock"}

\* C36: the sink's mutex is held only while a Close call is executing:
\* whenever no Close call is in progress the mutex is free.
C36_MutexHeldOnlyInClose ==
    (installed /\ \A t \in Threads : ~Closing(t)) => ~mutex

\* the first Close call of a sink leaves the mutex free
C36_FirstCloseReleases ==
    (installed /\ hist.closeCalls <= 1 /\ \A t \in Threads : ~Closing(t))
        => ~mutex

\* every Close call has returned, the mutex is held, and another Close call
\* is waiting for it
C36_LeakedThenBlocked ==
    /\ installed /\ mutex
    /\ hist.closeCalls = hist.closeDone + 1
    /\ \E t \in Threads : Blocked(t)


\* the handler's last call on the sink was Write, and it has returned
AfterWrite ==
    /\ installed /\ nOps > 0 /\ hist.lastW.ops = nOps
    /\ pc["handler"] \in {"idle", "done"}

\* C37: a Write(b) on the sink that returns a nil error returns len(b),
\* whether it buffered, completed the body and flushed, found no declared
\* length, or found the sink closed.
C37_WriteReturnsLen ==
    (AfterWrite /\ ~ret.err) => ret.n = hist.lastW.len

\* the buffering branch returns len(b), nil
C37_BufferingReturnsLen ==
    (AfterWrite /\ hist.lastW.path = "buffer") =>
        ~ret.err /\ ret.n = hist.lastW.len

\* a Write of a non-empty chunk that found no declared length, on a sink
\* that was not closed, returned 0 and a nil error
C37_ShortCount ==
    /\ AfterWrite /\ ~ret.err
    /\ hist.lastW.path = "nolength" /\ ~hist.lastW.closed
    /\ hist.lastW.len > 0 /\ ret.n = 0


\* the wrapped handler set a status and a header field on the sink and has
\* returned having written no body, or fewer bytes than the length it
\* declared; it did not close the sink itself and the peer is still there
ReturnedIncomplete ==
    /\ installed /\ pc["handler"] = "done"
    /\ ~notified /\ hist.directClose = 0
    /\ hist.lastWH.ops > 0
    /\ DOMAIN hist.handlerHeader # {}
    /\ \/ hist.writes = 0
       \/ DeclaredLength > 0 /\ hist.written < DeclaredLength

\* C38: every intercepted response is flushed: when the handler returns
\* without a body, or short of the declared Content-Length, and no
\* disconnect occurs, the pending status and header have been emitted to
\* the real sink by the time the middleware's handler returns.
C38_FlushedAtReturn ==
    ReturnedIncomplete =>
        /\ headerWritten
        /\ CountKind("status") = 1 /\ CountKind("header") = 1
        /\ HeaderWithin(hist.handlerHeader, wHeader)

\* the header phase happens only inside a Write or a DoWrite of the handler
C38_FlushOnlyFromWritePath ==
    (installed /\ headerWritten) => (hist.writes >= 1 \/ hist.directFlush >= 1)

\* the handler answered 404 with a declared length of 2, wrote one byte and
\* returned: the real sink was given nothing
C38_Unflushed ==
    /\ ReturnedIncomplete
    /\ response.StatusCode = StatusNotFound
    /\ DeclaredLength = 2 /\ hist.written = 1
    /\ out = <<>> /\ wHeader = SinkHeaderAtStart

====
